---- MODULE Spec2Model ----
(***************************************************************************)
(* pv_filter: a simulated second-order process variable (process_variable) *)
(* and a first-order low-pass filter (fo_filter), src/model.py, with the   *)
(* driver script src/simulation.py.                                        *)
(*                                                                         *)
(* Numbers are exact rationals <<n, d>> in lowest terms with d > 0, so the *)
(* arithmetic of the source (+, -, *, /, **2) is modelled by what it       *)
(* computes over the reals; the rounding of IEEE doubles is not modelled.  *)
(***************************************************************************)
EXTENDS Integers, Sequences, FiniteSets, TLC

(***************************************************************************)
(* Exact rational arithmetic                                               *)
(***************************************************************************)
Abs(n) == IF n < 0 THEN -n ELSE n

RECURSIVE GCD(_, _)
GCD(a, b) == IF b = 0 THEN a ELSE GCD(b, a % b)

\* the rational n/d (d # 0) in lowest terms with a positive denominator
R(n, d) ==
    LET g == GCD(Abs(n), Abs(d))
        s == IF d < 0 THEN -1 ELSE 1
    IN  <<(s * n) \div g, (s * d) \div g>>

Zero == <<0, 1>>
One  == <<1, 1>>

\* least common denominator of a and b
LCD(a, b) == (a[2] \div GCD(a[2], b[2])) * b[2]

RAdd(a, b) ==
    LET L == LCD(a, b)
    IN  R(a[1] * (L \div a[2]) + b[1] * (L \div b[2]), L)

RNeg(a) == <<-a[1], a[2]>>

RSub(a, b) == RAdd(a, RNeg(b))

RMul(a, b) ==
    LET g1 == GCD(Abs(a[1]), b[2])
        g2 == GCD(Abs(b[1]), a[2])
    IN  R((a[1] \div g1) * (b[1] \div g2), (a[2] \div g2) * (b[2] \div g1))

\* 1/a, for a # 0
RInv(a) == IF a[1] > 0 THEN <<a[2], a[1]>> ELSE <<-a[2], -a[1]>>

\* a/b, for b # 0
RDiv(a, b) == RMul(a, RInv(b))

RLe(a, b) ==
    LET L == LCD(a, b)
    IN  a[1] * (L \div a[2]) <= b[1] * (L \div b[2])

RLt(a, b) == RLe(a, b) /\ a # b

RMin(a, b) == IF RLe(a, b) THEN a ELSE b
RMax(a, b) == IF RLe(a, b) THEN b ELSE a

RSq(a) == RMul(a, a)

RECURSIVE RPow(_, _)
RPow(a, n) == IF n = 0 THEN One ELSE RMul(a, RPow(a, n - 1))

(***************************************************************************)
(* Bounds and input sets                                                   *)
(***************************************************************************)
\* filt calls made on one filter in FilterSpec
MaxCalls == 4
\* noise draws (= step calls over all instances) in PlantSpec
MaxDraws == 3
\* calls made after the step change in ScenarioSpec
ScenTail == 3

\* the sampling time constant and the time of the step change of the driver
SimDt    == <<1, 20>>
StepTime == 5
\* the first sample index k with k * dt >= StepTime
JumpIndex == (StepTime * SimDt[2]) \div SimDt[1]

\* fo_filter arguments
Wcs   == {<<-1, 1>>, Zero, One}
FDts  == {Zero, <<1, 20>>, One}
Z0s   == {Zero, One}
Datas == {<<-1, 1>>, Zero, One}

\* process_variable arguments and control inputs
Inst   == {"m", "n"}
Zetas  == {<<3, 10>>}
Wns    == {Zero, <<1, 2>>}
PDts   == {<<1, 20>>}
X0s    == {<<Zero, Zero>>, <<<<4, 1>>, Zero>>}
U0s    == {Zero}
Sigmas == {Zero, <<1, 10>>}
Us     == {Zero, One}
\* seeds of the process-wide generator np.random
Seeds  == {0, 1}

(***************************************************************************)
(* process_variable                                                        *)
(***************************************************************************)
NoPlant ==
    [st |-> "none", x |-> <<Zero, Zero>>, u |-> Zero, wn |-> Zero,
     sigma |-> Zero, y |-> Zero,
     Ad |-> <<<<Zero, Zero>>, <<Zero, Zero>>>>, Bd |-> <<Zero, Zero>>]
NoPlantArgs ==
    [zeta |-> Zero, dt |-> Zero, x_0 |-> <<Zero, Zero>>, us |-> <<>>,
     xPrev |-> <<Zero, Zero>>, ret |-> Zero, noise |-> Zero, before |-> 0,
     driven |-> FALSE]

\* np.dot(np.array([wn**2, 0.]), x), mutant: the natural frequency is not squared
out_y_noSquare(wn, x) == RAdd(RMul(wn, x[1]), RMul(Zero, x[2]))

\* np.dot(np.array([wn**2, 0.]), x)
out_y(wn, x) == RAdd(RMul(RSq(wn), x[1]), RMul(Zero, x[2]))

\* mutant: the initial output is not scaled
init_y_unscaled(wn, x_0) == x_0[1]

init_y(wn, x_0) == out_y(wn, x_0)

\* mutant: the stiffness term has the wrong sign
init_Ad_plusWn(zeta, wn, dt) ==
    <<<<RAdd(One, RMul(Zero, dt)), RAdd(Zero, RMul(One, dt))>>,
      <<RAdd(Zero, RMul(RSq(wn), dt)),
        RAdd(One, RMul(RMul(RMul(<<-2, 1>>, zeta), wn), dt))>>>>

\* np.eye(2) + np.array([[0., 1.], [-(wn**2.), (-2.)*zeta*wn]]) * dt
init_Ad(zeta, wn, dt) ==
    <<<<RAdd(One, RMul(Zero, dt)), RAdd(Zero, RMul(One, dt))>>,
      <<RAdd(Zero, RMul(RNeg(RSq(wn)), dt)),
        RAdd(One, RMul(RMul(RMul(<<-2, 1>>, zeta), wn), dt))>>>>

\* np.array([[0.], [1.]]) * dt
init_Bd(dt) == <<RMul(Zero, dt), RMul(One, dt)>>

process_variable_init(zeta, wn, x_0, u_0, dt, sigma) ==
    [st |-> "ready", x |-> x_0, u |-> u_0, wn |-> wn, sigma |-> sigma,
     y |-> init_y(wn, x_0), Ad |-> init_Ad(zeta, wn, dt), Bd |-> init_Bd(dt)]

\* the k-th standard normal value of the stream the seed fixes: values that
\* differ from one position to the next and are never exactly 0
Gauss(seed, k) == R(2 * ((3 * k + seed) % 7) - 7, 4)

\* np.random.normal(0, sigma) in generator state g: loc + scale * (next value)
normal(g, sigma) == RAdd(Zero, RMul(sigma, Gauss(g.seed, g.pos)))

\* mutant: every instance reads the stream from its start
drawn_restart(g) == [g EXCEPT !.pos = 0]

\* the generator state after one draw
drawn(g) == [g EXCEPT !.pos = @ + 1]

\* np.dot(Ad, x) + Bd * u
step_x(Ad, Bd, x, u) ==
    <<RAdd(RAdd(RMul(Ad[1][1], x[1]), RMul(Ad[1][2], x[2])), RMul(Bd[1], u)),
      RAdd(RAdd(RMul(Ad[2][1], x[1]), RMul(Ad[2][2], x[2])), RMul(Bd[2], u))>>

step_y(wn, x, noise) == RAdd(out_y(wn, x), noise)

\* mutant: the input matrix is scaled in place (Bd *= u)
step_scalesBd(self, u, noise) ==
    LET x == step_x(self.Ad, self.Bd, self.x, u)
    IN  [self EXCEPT !.x = x, !.y = step_y(self.wn, x, noise),
                     !.Bd = <<RMul(@[1], u), RMul(@[2], u)>>]

\* the object after step(u) with the noise value drawn; it returns its y
step(self, u, noise) ==
    LET x == step_x(self.Ad, self.Bd, self.x, u)
    IN  [self EXCEPT !.x = x, !.y = step_y(self.wn, x, noise)]

(***************************************************************************)
(* fo_filter                                                               *)
(***************************************************************************)
NoFilter == [st |-> "none", z |-> Zero, alpha |-> Zero, i |-> 0]
NoFilterArgs ==
    [wc |-> Zero, z_0 |-> Zero, dt |-> Zero, data |-> Zero, zPrev |-> Zero,
     iPrev |-> 0, ret |-> Zero, calls |-> 0, driven |-> FALSE]

\* 1/wc and dt / ((1/wc) + dt) raise ZeroDivisionError on a zero divisor
fo_filter_raises(wc, dt) == wc = Zero \/ RAdd(RInv(wc), dt) = Zero

init_alpha(wc, dt) == RDiv(dt, RAdd(RInv(wc), dt))

fo_filter_init(wc, z_0, dt) ==
    IF fo_filter_raises(wc, dt)
    THEN [NoFilter EXCEPT !.st = "raised"]
    ELSE [st |-> "ready", z |-> z_0, alpha |-> init_alpha(wc, dt), i |-> 0]

\* mutant: the first call is not skipped
filt_z_noSkip(alpha, data, z, i) ==
    RAdd(RMul(alpha, data), RMul(RSub(One, alpha), z))

\* mutant: the old state keeps its full weight
filt_z_noComplement(alpha, data, z, i) ==
    IF i = 0 THEN z ELSE RAdd(RMul(alpha, data), z)

\* mutant: the two weights are swapped
filt_z_swapped(alpha, data, z, i) ==
    IF i = 0 THEN z ELSE RAdd(RMul(RSub(One, alpha), data), RMul(alpha, z))

filt_z(alpha, data, z, i) ==
    IF i = 0
    THEN z
    ELSE RAdd(RMul(alpha, data), RMul(RSub(One, alpha), z))

\* mutant: the counter is incremented in the first branch only
filt_i_firstOnly(i) == IF i = 0 THEN 1 ELSE i

filt_i(i) == i + 1

\* the object after filt(data); the value returned is its z
filt(self, data) ==
    [self EXCEPT !.z = filt_z(self.alpha, data, self.z, self.i),
                 !.i = filt_i(self.i)]

VARIABLES
    flt,    \* the fo_filter object: st, z, alpha, i
    fargs,  \* history of flt: constructor arguments, the last call's argument,
            \* z and i before it, the value it returned, the calls made, and
            \* whether the object is the driver's, fed the driver's sequence
    pv,     \* the process_variable objects: st, x, u, wn, sigma, y, Ad, Bd
    pargs,  \* history of each: constructor arguments not kept by the object,
            \* the inputs of its step calls, x before the last call, the value
            \* and the noise of the last call, the step calls made on all
            \* objects before it, and whether it is the driver's
    rng     \* the state of np.random: the seed and the values drawn so far

vars == <<flt, fargs, pv, pargs, rng>>
filterVars == <<flt, fargs>>
plantVars == <<pv, pargs, rng>>

\* op = np.where(t < 5, 0, 1) at sample k, t = k * dt
op(k) == IF RLt(RMul(<<k, 1>>, SimDt), <<StepTime, 1>>) THEN Zero ELSE One

\* f = fo_filter(1, 0, dt)
DriverFilterArgs == [wc |-> One, z_0 |-> Zero, dt |-> SimDt]

\* m = process_variable(0.3, 0.5, np.array([[0.], [0.]]), 0., dt, sigma)
DriverPlantArgs ==
    [zeta |-> <<3, 10>>, wn |-> <<1, 2>>, x_0 |-> <<Zero, Zero>>,
     u_0 |-> Zero, dt |-> SimDt]

Init ==
    /\ flt = NoFilter
    /\ fargs = NoFilterArgs
    /\ pv = [p \in Inst |-> NoPlant]
    /\ pargs = [p \in Inst |-> NoPlantArgs]
    /\ \E seed \in Seeds : rng = [seed |-> seed, pos |-> 0]

NewFilter ==
    /\ flt.st = "none"
    /\ \E wc \in Wcs, z_0 \in Z0s, dt \in FDts :
        /\ flt' = fo_filter_init(wc, z_0, dt)
        /\ fargs' = [NoFilterArgs EXCEPT !.wc = wc, !.z_0 = z_0, !.dt = dt,
                        !.driven = ([wc |-> wc, z_0 |-> z_0, dt |-> dt] = DriverFilterArgs)]
    /\ UNCHANGED plantVars

\* the bookkeeping of one call filt(data)
Called(data) ==
    [fargs EXCEPT !.data = data, !.zPrev = flt.z, !.iPrev = flt.i,
                  !.ret = filt(flt, data).z, !.calls = @ + 1,
                  !.driven = (@ /\ data = op(fargs.calls))]

\* a call filt(data) with any argument
Filt ==
    /\ flt.st = "ready"
    /\ fargs.calls < MaxCalls
    /\ \E data \in Datas :
        /\ flt' = filt(flt, data)
        /\ fargs' = Called(data)
    /\ UNCHANGED plantVars

\* the driver's loop: the next sample of the step sequence is filtered
DriverFilt ==
    /\ flt.st = "ready"
    /\ fargs.driven
    /\ fargs.calls < JumpIndex + ScenTail
    /\ flt' = filt(flt, op(fargs.calls))
    /\ fargs' = Called(op(fargs.calls))
    /\ UNCHANGED plantVars

FilterNext == NewFilter \/ Filt \/ DriverFilt

FilterSpec == Init /\ [][FilterNext]_vars

NewPlant(p) ==
    /\ pv[p].st = "none"
    /\ \E zeta \in Zetas, wn \in Wns, x_0 \in X0s, u_0 \in U0s,
          dt \in PDts, sigma \in Sigmas :
        /\ pv' = [pv EXCEPT ![p] =
                    process_variable_init(zeta, wn, x_0, u_0, dt, sigma)]
        /\ pargs' = [pargs EXCEPT ![p] =
                    [NoPlantArgs EXCEPT !.zeta = zeta, !.dt = dt, !.x_0 = x_0,
                        !.driven = ([zeta |-> zeta, wn |-> wn, x_0 |-> x_0,
                                     u_0 |-> u_0, dt |-> dt] = DriverPlantArgs)]]
    /\ UNCHANGED <<rng, filterVars>>

\* step calls made so far on all objects
Steps(p) == Len(pargs[p].us)
RECURSIVE SumSteps(_)
SumSteps(S) ==
    IF S = {} THEN 0
    ELSE LET p == CHOOSE q \in S : TRUE IN Steps(p) + SumSteps(S \ {p})
TotalSteps == SumSteps(Inst)

\* one call pv[p].step(u): the state update, one draw from np.random
DoStep(p, u) ==
    LET noise == normal(rng, pv[p].sigma)
        new   == step(pv[p], u, noise)
    IN  /\ pv' = [pv EXCEPT ![p] = new]
        /\ rng' = drawn(rng)
        /\ pargs' = [pargs EXCEPT ![p] =
                [@ EXCEPT !.us = Append(@, u), !.xPrev = pv[p].x,
                          !.ret = new.y, !.noise = noise,
                          !.before = TotalSteps,
                          !.driven = (@ /\ u = op(Steps(p)))]]
        /\ UNCHANGED filterVars

\* a call step(u) with any control input, on any object
Step(p) ==
    /\ pv[p].st = "ready"
    /\ TotalSteps < MaxDraws
    /\ \E u \in Us : DoStep(p, u)

\* the driver's loop: the next sample of the control input is applied to
\* the driver's object, the only one the driver steps
DriverStep(p) ==
    /\ pv[p].st = "ready"
    /\ pargs[p].driven
    /\ TotalSteps = Steps(p)
    /\ Steps(p) < JumpIndex + ScenTail
    /\ DoStep(p, op(Steps(p)))

PlantNext == \E p \in Inst : NewPlant(p) \/ Step(p) \/ DriverStep(p)

PlantSpec == Init /\ [][PlantNext]_vars

(***************************************************************************)
(* Claims about fo_filter                                                  *)
(***************************************************************************)
Ready == flt.st = "ready"
AlphaInUnit == RLt(Zero, flt.alpha) /\ RLt(flt.alpha, One)

\* C1: on a freshly constructed filter the first call filt(data) returns
\* exactly z_0 whatever data is, leaves z equal to z_0 and sets i to 1.
C1_FirstCallReturnsZ0 ==
    (Ready /\ fargs.calls = 1) =>
        /\ fargs.ret = fargs.z_0
        /\ flt.z = fargs.z_0
        /\ flt.i = 1

C1_Witness ==
    /\ Ready /\ fargs.calls = 1
    /\ AlphaInUnit
    /\ fargs.data # fargs.z_0
    /\ fargs.ret = fargs.z_0

C9_TwoStateMachine ==
    Ready =>
        /\ flt.i = fargs.calls
        /\ flt.alpha = init_alpha(fargs.wc, fargs.dt)
        /\ fargs.calls >= 1 =>
                /\ flt.i = fargs.iPrev + 1
                /\ flt.i > 0
        /\ fargs.calls >= 2 =>
                RSub(flt.z, fargs.zPrev) =
                    RMul(flt.alpha, RSub(fargs.data, fargs.zPrev))

C9_Witness ==
    /\ Ready /\ fargs.calls = MaxCalls /\ flt.i = MaxCalls
    /\ flt.z # fargs.zPrev

(***************************************************************************)
(* Claims about process_variable                                           *)
(***************************************************************************)
Live(p) == pv[p].st = "ready"
Stepped(p) == Live(p) /\ Steps(p) >= 1
LastU(p) == pargs[p].us[Steps(p)]
\* every object constructed so far has the positive wn and dt its contract asks
AllValid ==
    \A q \in Inst :
        Live(q) => (RLt(Zero, pv[q].wn) /\ RLt(Zero, pargs[q].dt))

\* C3: after each step(u), x_new = Ad x_old + Bd u, that is
\* x0' = x0 + dt x1 and x1' = x1 + dt (-wn^2 x0 - 2 zeta wn x1 + u), whatever
\* the noise drawn; with sigma = 0 the value returned is wn^2 x_new[0].
C3_StateUpdate ==
    \A p \in Inst : Stepped(p) =>
        LET xo == pargs[p].xPrev
            u  == LastU(p)
            dt == pargs[p].dt
            wn == pv[p].wn
            acc == RAdd(RSub(RNeg(RMul(RSq(wn), xo[1])),
                             RMul(RMul(RMul(<<2, 1>>, pargs[p].zeta), wn), xo[2])),
                        u)
        IN  /\ pv[p].x[1] = RAdd(xo[1], RMul(dt, xo[2]))
            /\ pv[p].x[2] = RAdd(xo[2], RMul(dt, acc))
            /\ pv[p].x = step_x(pv[p].Ad, pv[p].Bd, xo, u)
            /\ pargs[p].ret = pv[p].y
            /\ pv[p].sigma = Zero => pargs[p].ret = RMul(RSq(wn), pv[p].x[1])

C3_Witness ==
    \E p \in Inst :
        /\ Steps(p) >= 2
        /\ pv[p].sigma = Zero
        /\ pv[p].wn # Zero
        /\ pargs[p].xPrev[1] # Zero /\ pargs[p].xPrev[2] # Zero
        /\ LastU(p) = One
        /\ pargs[p].ret # Zero

\* C4: Ad and Bd are those computed at construction from zeta, wn and dt,
\* after any number of step calls with any control inputs.
C4_MatricesFixed ==
    \A p \in Inst : Live(p) =>
        /\ pv[p].Ad = init_Ad(pargs[p].zeta, pv[p].wn, pargs[p].dt)
        /\ pv[p].Bd = init_Bd(pargs[p].dt)

C4_Witness ==
    \E p \in Inst :
        /\ Steps(p) = MaxDraws
        /\ pv[p].wn # Zero
        /\ pv[p].x # pargs[p].x_0
        /\ pv[p].Ad = init_Ad(pargs[p].zeta, pv[p].wn, pargs[p].dt)

\* C5 as stated: in every reachable state, the one right after construction
\* included, y is wn^2 x[0] plus a noise value drawn from the generator
\* (stated for objects with valid arguments and sigma > 0, where the draw
\* shows in y).
C5_YAlwaysDrawsNoise ==
    \A p \in Inst : (AllValid /\ Live(p) /\ pv[p].sigma # Zero) =>
        \E k \in 0 .. (rng.pos - 1) :
            pv[p].y = RAdd(RMul(RSq(pv[p].wn), pv[p].x[1]),
                           RMul(pv[p].sigma, Gauss(rng.seed, k)))

\* C5 as amended: right after construction y is exactly wn^2 x_0[0] and no
\* noise value has been drawn for it; after every step call y is wn^2 x[0]
\* plus the one value that call drew, so the values drawn are as many as the
\* step calls made.
C5_YNoisyAfterStepOnly ==
    /\ rng.pos = TotalSteps
    /\ \A p \in Inst : Live(p) =>
        /\ Steps(p) = 0 =>
                /\ pv[p].x = pargs[p].x_0
                /\ pv[p].y = RMul(RSq(pv[p].wn), pargs[p].x_0[1])
        /\ Steps(p) >= 1 =>
                /\ pv[p].y = RAdd(RMul(RSq(pv[p].wn), pv[p].x[1]), pargs[p].noise)
                /\ \E k \in 0 .. (rng.pos - 1) :
                        pargs[p].noise = RMul(pv[p].sigma, Gauss(rng.seed, k))

C5_Witness ==
    \E p \in Inst :
        /\ Live(p) /\ Steps(p) = 0
        /\ rng.pos = 0
        /\ pv[p].sigma # Zero
        /\ pv[p].y = One

\* The runs in which calls on several objects interleave: they make at most
\* MaxDraws step calls; a longer run is the driver's, which steps one object.
Short(p) == Stepped(p) /\ Steps(p) <= MaxDraws

\* what a run of p alone, with the same seed and inputs, computes
RECURSIVE SoloX(_, _)
SoloX(p, k) ==
    IF k = 0 THEN pargs[p].x_0
    ELSE step_x(init_Ad(pargs[p].zeta, pv[p].wn, pargs[p].dt),
                init_Bd(pargs[p].dt), SoloX(p, k - 1), pargs[p].us[k])
SoloRet(p) ==
    RAdd(RMul(RSq(pv[p].wn), SoloX(p, Steps(p))[1]),
         RMul(pv[p].sigma, Gauss(rng.seed, Steps(p) - 1)))

\* C8 as stated: for a fixed seed and input sequence, an object with
\* sigma > 0 returns what it returns when run alone, whether or not step
\* calls on other objects are interleaved with its own (stated for objects
\* with valid arguments).
C8_OutputAsAlone ==
    \A p \in Inst :
        (AllValid /\ Short(p) /\ pv[p].sigma # Zero) =>
            pargs[p].ret = SoloRet(p)

\* C8 as amended: the objects share the process-wide generator.  The state
\* x of an object is what a run alone computes, whatever is interleaved;
\* its output uses the value at the generator's position, which counts the
\* step calls made on all objects, so it is the output of the run alone
\* when no step call on another object came before.
C8_OutputUsesSharedStream ==
    \A p \in Inst : Short(p) =>
        /\ pv[p].x = SoloX(p, Steps(p))
        /\ pargs[p].ret =
                RAdd(RMul(RSq(pv[p].wn), SoloX(p, Steps(p))[1]),
                     RMul(pv[p].sigma, Gauss(rng.seed, pargs[p].before)))
        /\ pargs[p].before >= Steps(p) - 1
        /\ pargs[p].before = Steps(p) - 1 => pargs[p].ret = SoloRet(p)

C8_Witness ==
    \E p \in Inst :
        /\ Short(p) /\ pv[p].sigma # Zero
        /\ pargs[p].before > Steps(p) - 1
        /\ pargs[p].ret # SoloRet(p)
        /\ pv[p].x = SoloX(p, Steps(p))

\* eigenvalues of a 2x2 matrix inside the unit circle (Jury's criterion)
Det(A) == RSub(RMul(A[1][1], A[2][2]), RMul(A[1][2], A[2][1]))
Tr(A) == RAdd(A[1][1], A[2][2])
RAbs(a) == IF a[1] < 0 THEN RNeg(a) ELSE a
Schur(A) == RLt(RAbs(Det(A)), One) /\ RLt(RAbs(Tr(A)), RAdd(One, Det(A)))

\* the state whose output is u
Rest(wn, u) == <<RDiv(u, RSq(wn)), Zero>>

\* C10: with sigma = 0, x = (u / wn^2, 0) is a fixed point of step(u) and
\* the output there is u.  In the driver's run (zeta 0.3, wn 0.5, x_0 (0, 0),
\* dt 0.05, input 0 before sample JumpIndex and 1 from it on) the output is 0
\* up to the step change; from then on the distance of x to the fixed point
\* of input 1, whose output is 1, is multiplied by Ad at each call, and the
\* eigenvalues of Ad lie inside the unit circle: the output stays bounded
\* and approaches 1.
C10_UnitGain ==
    \A p \in Inst : (Stepped(p) /\ pv[p].sigma = Zero /\ pv[p].wn # Zero) =>
        LET u  == LastU(p)
            xo == pargs[p].xPrev
            xr == Rest(pv[p].wn, One)
        IN  /\ xo = Rest(pv[p].wn, u) =>
                    /\ pv[p].x = xo
                    /\ pargs[p].ret = u
            /\ pargs[p].driven =>
                    /\ Schur(pv[p].Ad)
                    /\ step_x(pv[p].Ad, pv[p].Bd, xr, One) = xr
                    /\ out_y(pv[p].wn, xr) = One
                    /\ Steps(p) <= JumpIndex => pargs[p].ret = Zero
                    /\ Steps(p) > JumpIndex =>
                            /\ RSub(pv[p].x[1], xr[1]) =
                                    RAdd(RMul(pv[p].Ad[1][1], RSub(xo[1], xr[1])),
                                         RMul(pv[p].Ad[1][2], RSub(xo[2], xr[2])))
                            /\ RSub(pv[p].x[2], xr[2]) =
                                    RAdd(RMul(pv[p].Ad[2][1], RSub(xo[1], xr[1])),
                                         RMul(pv[p].Ad[2][2], RSub(xo[2], xr[2])))

C10_Witness ==
    \E p \in Inst :
        /\ Stepped(p) /\ pv[p].sigma = Zero /\ pv[p].wn # Zero
        /\ LastU(p) = One
        /\ pargs[p].xPrev = Rest(pv[p].wn, One)
        /\ pargs[p].ret = One

\* the driver's run two samples after the step change
C10_DriverWitness ==
    \E p \in Inst :
        /\ Stepped(p) /\ pv[p].sigma = Zero /\ pargs[p].driven
        /\ Steps(p) = JumpIndex + 2
        /\ RLt(Zero, pargs[p].ret)

(***************************************************************************)
(* Claim about construction                                                *)
(***************************************************************************)
\* C6: no object constructed with a non-positive parameter reaches a state
\* where filt or step can be called: every fo_filter that exists has wc > 0
\* and dt > 0, every process_variable that exists has wn > 0 and dt > 0.
C6_NoObjectWithNonPositiveArgs ==
    /\ Ready => (RLt(Zero, fargs.wc) /\ RLt(Zero, fargs.dt))
    /\ \A p \in Inst :
            Live(p) => (RLt(Zero, pv[p].wn) /\ RLt(Zero, pargs[p].dt))

====
